---- MODULE Spec2Model ----
(***************************************************************************)
(* dockcron: the per-job scheduler loops (src/job.rs run_loop,             *)
(* run_once_async, run_once, next_instant) and the shutdown coordination   *)
(* of src/main.rs (main, run), as one state machine over a discrete clock. *)
(***************************************************************************)
EXTENDS Integers, FiniteSets, Sequences, TLC

\* ------------------------------------------------------------------ bounds
MaxTime == 4
MaxPeriod == 2

JobIds == {1, 2}
Horizon == MaxTime + 1

\* positions in a Job's list of execution tasks
ExecIds == 1..Horizon

\* ------------------------------------------------------------ job inputs
OverlapPolicy == {"Allow", "Skip"}

\* A compiled cron matcher is the set of instants it matches.
CronEveryInstant == 1..Horizon
CronOnce == {2}
CronNever == {}

JobSchedule ==
    [kind : {"Every"}, d : 1..MaxPeriod, times : {{}}]
        \cup [kind : {"Cron"}, d : {0}, times : {CronEveryInstant, CronOnce, CronNever}]

Job == [overlap : OverlapPolicy, schedule : JobSchedule]

\* an id for which the containers' labels describe no Job
NoJob == [overlap |-> "Allow", schedule |-> [kind |-> "Every", d |-> 0, times |-> {}]]

\* The Jobs the containers' labels describe when the process starts: none,
\* one Job of any kind, or that Job and a second one.
SecondJobs ==
    { [overlap |-> "Allow", schedule |-> [kind |-> "Every", d |-> 1, times |-> {}]],
      [overlap |-> "Skip", schedule |-> [kind |-> "Cron", d |-> 0, times |-> CronOnce]] }

Inventories ==
    {inv \in [JobIds -> Job \cup {NoJob}] :
        /\ inv[2] \in SecondJobs \cup {NoJob}
        /\ inv[1] = NoJob => inv[2] = NoJob}

\* ------------------------------------------------------- schedule strings
\* A string is the sequence of its pieces: a piece is one blank or a word
\* without blanks, except the raw cron expression, which is one piece.
Words == {"@every", "@cron", "@hourly", "@daily", "@weekly", "@monthly",
          "1h", "24h", "soon", "0 0 * * * *"}
Pieces == Words \cup {" "}

JOB_SCHEDULE_EVERY_DEFINITION_PREFIX == <<"@every", " ">>
JOB_SCHEDULE_CRON_DEFINITION_PREFIX == <<"@cron", " ">>

RECURSIVE trim_start(_)
trim_start(s) == IF s # <<>> /\ Head(s) = " " THEN trim_start(Tail(s)) ELSE s

RECURSIVE trim_end(_)
trim_end(s) ==
    IF s # <<>> /\ s[Len(s)] = " " THEN trim_end(SubSeq(s, 1, Len(s) - 1)) ELSE s

\* variant of str::trim that leaves the string as it is
no_trim(s) == s

\* str::trim
trim(s) == trim_end(trim_start(s))

\* str::strip_prefix: <<>> stands for None, <<rest>> for Some(rest)
strip_prefix(s, prefix) ==
    IF Len(s) >= Len(prefix) /\ SubSeq(s, 1, Len(prefix)) = prefix
    THEN <<SubSeq(s, Len(prefix) + 1, Len(s))>>
    ELSE <<>>

\* seconds of one "<number><unit>" word of humantime
UnitSecs(w) == IF w = "1h" THEN 3600 ELSE IF w = "24h" THEN 24 * 3600 ELSE -1

\* humantime::parse_duration: blanks are skipped, the "<number><unit>" items
\* are added up, an empty string or any other word is an error (-1)
RECURSIVE parse_items(_, _)
parse_items(s, acc) ==
    IF s = <<>> THEN acc
    ELSE IF Head(s) = " " THEN parse_items(Tail(s), acc)
    ELSE IF UnitSecs(Head(s)) < 0 THEN -1
    ELSE parse_items(Tail(s), acc + UnitSecs(Head(s)))

parse_duration(s) == IF trim(s) = <<>> THEN -1 ELSE parse_items(s, 0)

\* cron::Schedule::from_str accepts a field expression and its own
\* shorthands, and nothing before or after them
CronShorthands == {"@hourly", "@daily", "@weekly", "@monthly"}
Schedule_from_str(s) == Len(s) = 1 /\ s[1] \in {"0 0 * * * *"} \cup CronShorthands

\* values of Result<JobSchedule>
Every(secs) == [ok |-> TRUE, kind |-> "Every", secs |-> secs, expr |-> <<>>, err |-> ""]
Cron(expr) == [ok |-> TRUE, kind |-> "Cron", secs |-> 0, expr |-> expr, err |-> ""]
Err(msg) == [ok |-> FALSE, kind |-> "", secs |-> 0, expr |-> <<>>, err |-> msg]

\* what from_str does with an already trimmed string
parse_trimmed(s) ==
    LET every == strip_prefix(s, JOB_SCHEDULE_EVERY_DEFINITION_PREFIX)
        cron == strip_prefix(s, JOB_SCHEDULE_CRON_DEFINITION_PREFIX)
    IN  IF every # <<>>
        THEN IF parse_duration(every[1]) < 0
             THEN Err("invalid duration")
             ELSE Every(parse_duration(every[1]))
        ELSE IF cron # <<>>
        THEN IF Schedule_from_str(cron[1])
             THEN Cron(cron[1])
             ELSE Err("could not parse cron schedule")
        ELSE IF s = <<"@hourly">> THEN Every(3600)
        ELSE IF s = <<"@daily">> \/ s = <<"@every", " ", "24h">> THEN Every(24 * 3600)
        ELSE IF s = <<"@weekly">> THEN Every(7 * 24 * 3600)
        ELSE IF s = <<"@monthly">> THEN Every(30 * 24 * 3600)
        ELSE IF Schedule_from_str(s) THEN Cron(s)
        ELSE Err("unsupported schedule")

\* variant of from_str that does not trim its argument
from_str_untrimmed(value) == parse_trimmed(no_trim(value))

\* <JobSchedule as FromStr>::from_str
from_str(value) == parse_trimmed(trim(value))

\* the value of a call that has not been made
NotCalled == [ok |-> FALSE, kind |-> "", secs |-> 0, expr |-> <<>>, err |-> "not called"]

\* the strings handed to from_str: up to MaxPieces pieces, no two blanks in a row
MaxPieces == 3
Texts ==
    {s \in UNION {[1..n -> Pieces] : n \in 0..MaxPieces} :
        \A i \in 1..(Len(s) - 1) : ~(s[i] = " " /\ s[i + 1] = " ")}

\* --------------------------------------------------------------- discover
\* A label key is the sequence of its dot-separated segments, a label value
\* a string as above; a container's labels are a function from keys to
\* values. An Option is <<>> (None) or <<v>> (Some(v)). A container id or
\* name is the sequence of its characters.
Min(S) == CHOOSE x \in S : \A y \in S : x <= y
Max(S) == CHOOSE x \in S : \A y \in S : x >= y

\* Iterator::take on the characters of a string
take(str, n) == SubSeq(str, 1, IF Len(str) < n THEN Len(str) ELSE n)

\* variant: the id is dropped, every container gets the default ""
container_id_default(c) == <<>>

\* c.id.clone().unwrap_or_default()
container_id(c) == IF c.id = <<>> THEN <<>> ELSE c.id[1]

\* first name, or the first 12 characters of the id
container_name(c) ==
    IF c.names # <<>> THEN c.names[1] ELSE take(container_id(c), 12)

\* labels.iter().any(|(k, v)| k == filter.key && v == filter.value)
passes_filter(labels, container_filter_label) ==
    \/ container_filter_label = <<>>
    \/ \E k \in DOMAIN labels :
          /\ k = container_filter_label[1].key
          /\ labels[k] = container_filter_label[1].value

\* labels.get("<prefix>.enabled").map(|s| s == "true").unwrap_or(false)
enabled(labels, prefix) ==
    /\ <<prefix, "enabled">> \in DOMAIN labels
    /\ labels[<<prefix, "enabled">>] = <<"true">>

\* variant: the last enabled prefix of the list wins
found_prefix_last(labels, prefixes) ==
    LET hits == {i \in DOMAIN prefixes : enabled(labels, prefixes[i])}
    IN  IF hits = {} THEN <<>> ELSE <<prefixes[Max(hits)]>>

\* `for prefix in prefixes { if enabled { found_prefix = Some(prefix); break } }`
found_prefix(labels, prefixes) ==
    LET hits == {i \in DOMAIN prefixes : enabled(labels, prefixes[i])}
    IN  IF hits = {} THEN <<>> ELSE <<prefixes[Min(hits)]>>

\* ^<prefix>\.job-exec\.([^.]+)\.(schedule|command|no-overlap)$
re_captures(k, prefix) ==
    IF /\ Len(k) = 4
       /\ k[1] = prefix
       /\ k[2] = "job-exec"
       /\ k[3] # ""
       /\ k[4] \in {"schedule", "command", "no-overlap"}
    THEN <<[job |-> k[3], kind |-> k[4]]>>
    ELSE <<>>

\* by_job: the PartialJobConfig of every job name some label captures
by_job(labels, prefix) ==
    LET caught == {k \in DOMAIN labels : re_captures(k, prefix) # <<>>}
        field(name, kind) ==
            LET ks == {k \in caught : re_captures(k, prefix)[1] = [job |-> name, kind |-> kind]}
            IN  IF ks = {} THEN <<>> ELSE <<labels[CHOOSE k \in ks : TRUE]>>
    IN  [name \in {re_captures(k, prefix)[1].job : k \in caught} |->
            [schedule |-> field(name, "schedule"),
             command |-> field(name, "command"),
             no_overlap |-> field(name, "no-overlap")]]

\* Some("true") after trim => Skip, anything else => Allow
overlap_of(no_overlap_opt) ==
    IF no_overlap_opt # <<>> /\ trim(no_overlap_opt[1]) = <<"true">> THEN "Skip" ELSE "Allow"

NewJob(c, jobname, schedule, command, overlap) ==
    [container_id |-> container_id(c), container_name |-> container_name(c),
     name |-> jobname, schedule |-> schedule, command |-> command, overlap |-> overlap]

\* variant of one pass of `for (jobname, acc) in by_job`: the schedule is
\* parsed before the command is looked at
group_step_parse_first(c, jobname, acc) ==
    IF acc.schedule = <<>> THEN [do |-> "continue"]
    ELSE IF ~from_str(acc.schedule[1]).ok THEN [do |-> "return_err"]
    ELSE IF acc.command = <<>> THEN [do |-> "continue"]
    ELSE [do |-> "push",
          job |-> NewJob(c, jobname, from_str(acc.schedule[1]), acc.command[1],
                         overlap_of(acc.no_overlap))]

\* variant: a schedule that does not parse drops the group only
group_step_lenient(c, jobname, acc) ==
    IF acc.schedule = <<>> THEN [do |-> "continue"]
    ELSE IF acc.command = <<>> THEN [do |-> "continue"]
    ELSE IF ~from_str(acc.schedule[1]).ok THEN [do |-> "continue"]
    ELSE [do |-> "push",
          job |-> NewJob(c, jobname, from_str(acc.schedule[1]), acc.command[1],
                         overlap_of(acc.no_overlap))]

\* one pass of `for (jobname, acc) in by_job`
group_step(c, jobname, acc) ==
    IF acc.schedule = <<>> THEN [do |-> "continue"]
    ELSE IF acc.command = <<>> THEN [do |-> "continue"]
    ELSE IF ~from_str(acc.schedule[1]).ok THEN [do |-> "return_err"]
    ELSE [do |-> "push",
          job |-> NewJob(c, jobname, from_str(acc.schedule[1]), acc.command[1],
                         overlap_of(acc.no_overlap))]

\* values of Result<Vec<Job>>
Found(js) == [ok |-> TRUE, jobs |-> js, err |-> ""]
Failed(msg) == [ok |-> FALSE, jobs |-> <<>>, err |-> msg]
NotFound == Failed("not called")

\* `for (jobname, acc) in by_job`, the HashMap yielding its keys in `order`
RECURSIVE for_groups(_, _, _, _)
for_groups(c, groups, order, jobs) ==
    IF order = <<>> THEN Found(jobs)
    ELSE IF Head(order) \notin DOMAIN groups THEN for_groups(c, groups, Tail(order), jobs)
    ELSE LET step == group_step(c, Head(order), groups[Head(order)])
         IN  IF step.do = "return_err" THEN Failed("parse schedule")
             ELSE IF step.do = "continue" THEN for_groups(c, groups, Tail(order), jobs)
             ELSE for_groups(c, groups, Tail(order), Append(jobs, step.job))

\* `for c in containers`
RECURSIVE for_containers(_, _, _, _, _)
for_containers(containers, container_filter_label, prefixes, order, jobs) ==
    IF containers = <<>> THEN Found(jobs)
    ELSE LET c == Head(containers)
             rest == Tail(containers)
             prefix == found_prefix(c.labels, prefixes)
         IN  IF ~passes_filter(c.labels, container_filter_label)
             THEN for_containers(rest, container_filter_label, prefixes, order, jobs)
             ELSE IF prefix = <<>>
             THEN for_containers(rest, container_filter_label, prefixes, order, jobs)
             ELSE LET r == for_groups(c, by_job(c.labels, prefix[1]), order, jobs)
                  IN  IF ~r.ok THEN r
                      ELSE for_containers(rest, container_filter_label, prefixes,
                                          order, r.jobs)

\* discover, on what list_containers returned
discover(q, order) ==
    IF ~q.listed THEN Failed("list containers")
    ELSE for_containers(q.containers, q.container_filter_label, q.prefixes, order, <<>>)

\* ------------------------------------------------------- discover's inputs
\* the order in which a HashMap of job names yields its keys
Orders == {<<"a", "b">>, <<"b", "a">>}

LabelsOf(pairs) == [k \in {p[1] : p \in pairs} |-> (CHOOSE p \in pairs : p[1] = k)[2]]

OneLabel(key, value_opt) == IF value_opt = <<>> THEN {} ELSE {<<key, value_opt[1]>>}

Group(prefix, name, schedule_opt, command_opt, no_overlap_opt) ==
    OneLabel(<<prefix, "job-exec", name, "schedule">>, schedule_opt)
        \cup OneLabel(<<prefix, "job-exec", name, "command">>, command_opt)
        \cup OneLabel(<<prefix, "job-exec", name, "no-overlap">>, no_overlap_opt)

GoodEvery == <<"@every", " ", "1h">>
BadEvery == <<"@every", " ", "soon">>
GoodCron == <<"0 0 * * * *">>
Date == <<"date">>

Id1 == <<"4", "e", "7", "1", "a", "0", "c", "9", "9", "b", "2", "d", "5", "f">>
Id2 == <<"9", "a", "0", "3", "3", "c", "e", "1", "7", "7", "d", "4", "b", "2">>

\* the first container: every combination of its enabling labels, of the
\* labels of job a under dockcron, and of a few groups of job b and of ofelia
FirstContainers ==
    { [id |-> <<Id1>>, names |-> << <<"/", "w", "e", "b">> >>,
       labels |-> LabelsOf(
           OneLabel(<<"dockcron", "enabled">>, e1)
               \cup OneLabel(<<"ofelia", "enabled">>, e2)
               \cup Group("dockcron", "a", sa, ca, na)
               \cup gb \cup go
               \cup OneLabel(<<"env">>, env))] :
         e1 \in {<<>>, << <<"true">> >>, << <<"true", " ">> >>},
         e2 \in {<<>>, << <<"true">> >>},
         sa \in {<<>>, <<GoodEvery>>, <<BadEvery>>},
         ca \in {<<>>, <<Date>>},
         na \in {<<>>, << <<"true", " ">> >>},
         gb \in {{}, Group("dockcron", "b", << <<"@daily">> >>, <<Date>>, <<>>),
                 Group("dockcron", "b", << <<"soon">> >>, <<Date>>, <<>>)},
         go \in {{}, Group("ofelia", "a", <<GoodCron>>, <<Date>>, <<>>)},
         env \in {<<>>, << <<"prod">> >>} }

\* the second container, when there is one
SecondContainers ==
    { [id |-> <<Id2>>, names |-> << <<"/", "d", "b">> >>,
       labels |-> LabelsOf(
           OneLabel(<<"dockcron", "enabled">>, << <<"true">> >>)
               \cup Group("dockcron", "a", <<GoodEvery>>, <<Date>>, <<>>)
               \cup OneLabel(<<"env">>, << <<"prod">> >>))],
      [id |-> <<Id2>>, names |-> << <<"/", "d", "b">> >>,
       labels |-> LabelsOf(
           OneLabel(<<"dockcron", "enabled">>, << <<"true">> >>)
               \cup Group("dockcron", "a", <<BadEvery>>, <<Date>>, <<>>)
               \cup OneLabel(<<"env">>, << <<"prod">> >>))],
      [id |-> <<Id2>>, names |-> << <<"/", "d", "b">> >>,
       labels |-> LabelsOf(
           OneLabel(<<"ofelia", "enabled">>, << <<"true">> >>)
               \cup Group("ofelia", "b", <<GoodCron>>, <<Date>>, << <<"false">> >>)
               \cup OneLabel(<<"ofelia", "job-exec", "", "schedule">>, <<GoodEvery>>)
               \cup OneLabel(<<"ofelia", "job-exec", "", "command">>, <<Date>>)
               \cup OneLabel(<<"ofelia", "job-exec", "a", "x", "schedule">>, <<GoodEvery>>)
               \cup OneLabel(<<"ofelia", "job-exec", "a", "x", "command">>, <<Date>>))],
      [id |-> <<Id2>>, names |-> <<>>,
       labels |-> LabelsOf(
           OneLabel(<<"dockcron", "enabled">>, << <<"true">> >>)
               \cup OneLabel(<<"ofelia", "enabled">>, << <<"true">> >>)
               \cup Group("dockcron", "a", <<GoodEvery>>, <<Date>>, << <<"true">> >>)
               \cup Group("ofelia", "b", <<GoodCron>>, <<Date>>, <<>>)
               \cup OneLabel(<<"env">>, << <<"prod">> >>))] }

Filters == {<<>>, <<[key |-> <<"env">>, value |-> <<"prod">>]>>}
PrefixLists == {<<"dockcron", "ofelia">>, <<"ofelia", "dockcron">>}

\* no call of discover
NoQuery ==
    [listed |-> FALSE, containers |-> <<>>, container_filter_label |-> <<>>,
     prefixes |-> <<>>]

\* a call of discover: list_containers fails, or returns one or two containers
Queries ==
    { [listed |-> TRUE, containers |-> cs, container_filter_label |-> f, prefixes |-> ps] :
         cs \in {<<c1>> : c1 \in FirstContainers}
                \cup {<<c1, c2>> : c1 \in FirstContainers, c2 \in SecondContainers},
         f \in Filters, ps \in PrefixLists }
      \cup { [listed |-> FALSE, containers |-> <<>>, container_filter_label |-> f,
              prefixes |-> ps] : f \in Filters, ps \in PrefixLists }

VARIABLES
    now,        \* the clock (tokio::time::Instant::now / Utc::now)
    job,        \* the Jobs the labels describe, immutable
    jobs,       \* ids of the Jobs discover returned
    pcSig,      \* the signal task of main
    rxMain,     \* run's broadcast receiver `shutdown`
    rx,         \* each loop task's receiver `shutdown_rx`
    pcRun,      \* position of run
    handles,    \* loop tasks spawned so far
    pc,         \* position of each loop task
    loopStart,  \* instant at which run_loop began
    deadline,   \* next deadline of `execution_interval`
    next,       \* `next` of the cron branch
    gate,       \* permits available in job.gate
    execs,      \* per job: the execution tasks, each at its stage of run_once or,
                \* ended and not yet joined, at its result
    fired,      \* per job: ticks that dispatched an execution
    skipped,    \* per job: ticks logged as "skipping tick"
    aborted,    \* per job: executions cut off by the runtime shutting down
    attempt,    \* per job: the container calls made so far by the execution
                \* task at hand, and what run_once returned
    text,       \* the argument of a call of JobSchedule::from_str
    parsed,     \* what that call returned
    query,      \* the arguments of a call of discover and the containers listed
    found       \* what that call returned

vars == <<now, job, jobs, pcSig, rxMain, rx, pcRun, handles, pc,
          loopStart, deadline, next, gate, execs, fired, skipped, aborted, attempt,
          text, parsed, query, found>>

pureVars == <<text, parsed, query, found>>

sigVars == <<pcSig, rxMain, rx>>
runVars == <<pcRun, handles, jobs>>
loopVars == <<pc, loopStart, deadline, next, gate, fired, skipped>>
execVars == <<execs, aborted, attempt>>
machineVars == <<now, job, sigVars, runVars, loopVars, execVars>>

Stages == {"spawned", "output"}
Results == {"not_running", "inspect_failed", "empty_command", "create_failed",
            "start_failed", "detached", "finished", "panicked"}

\* no call made, nothing returned yet
NoAttempt == [calls |-> <<>>, ret |-> "none"]
LoopLive == {"start", "warmup", "wait", "join"}
LoopEnded == {"returned", "failed"}

\* every task and queue as main finds them; the Jobs are an input
Start ==
    /\ now = 0
    /\ jobs = {}
    /\ pcSig = "select"
    /\ rxMain = "empty"
    /\ rx = [j \in JobIds |-> "unsub"]
    /\ pcRun = "discover"
    /\ handles = {}
    /\ pc = [j \in JobIds |-> "unspawned"]
    /\ loopStart = [j \in JobIds |-> 0]
    /\ deadline = [j \in JobIds |-> 0]
    /\ next = [j \in JobIds |-> 0]
    /\ gate = [j \in JobIds |-> 1]
    /\ execs = [j \in JobIds |-> <<>>]
    /\ fired = [j \in JobIds |-> 0]
    /\ skipped = [j \in JobIds |-> 0]
    /\ aborted = [j \in JobIds |-> 0]
    /\ attempt = [j \in JobIds |-> NoAttempt]

Init ==
    /\ Start
    /\ job \in Inventories
    /\ text = <<>>
    /\ parsed = NotCalled
    /\ query = NoQuery
    /\ found = NotFound

\* ---------------------------------------------------------------- helpers
RemoveAt(s, i) == [k \in 1..(Len(s) - 1) |-> IF k < i THEN s[k] ELSE s[k + 1]]

\* variant of next_instant that falls back to `t` instead of the Err
next_instant_or_now(times, t) ==
    LET upcoming == {x \in times : x > t}
    IN  IF upcoming = {} THEN t ELSE Min(upcoming)

\* next_instant: the first occurrence after `t`, as an Instant; -1 is the
\* Err "cron produced no next occurrence".
next_instant(times, t) ==
    LET upcoming == {x \in times : x > t}
    IN  IF upcoming = {} THEN -1
        ELSE LET next_dt == Min(upcoming)
                 dur == IF next_dt - t < 0 THEN 0 ELSE next_dt - t
             IN  t + dur

\* broadcast::Receiver::recv is ready when a message sent after the receiver
\* was created is buffered, or when every Sender has been dropped (Closed).
RecvReady(r) == r = "msg" \/ (r = "empty" /\ pcSig = "done")

\* variant: the spawned task is not awaited (fire and forget)
JoinNeverPending(es) == FALSE

\* `tokio::spawn(..).await` in run_once_async: the JoinHandle is pending
\* for as long as the spawned execution task is in flight.
JoinPending(es) == \E i \in DOMAIN es : es[i] \in Stages

InFlight(es) == Cardinality({i \in DOMAIN es : es[i] \in Stages})
Running(es) == SelectSeq(es, LAMBDA e : e \in Stages)

\* variant, MissedTickBehavior::Skip: a late tick moves the deadline to the
\* next multiple of the period that lies after `t`
SkipNextTimeout(timeout, t, period) ==
    IF t > timeout THEN t + period - ((t - timeout) % period) ELSE timeout + period

\* MissedTickBehavior::Burst: the next deadline is one period after the
\* deadline that just completed, however late the tick is taken at `t`
BurstNextTimeout(timeout, t, period) == timeout + period

\* the instant the loop's current wait completes
Due(j) == IF job[j].schedule.kind = "Every" THEN deadline[j] ELSE next[j]

\* ------------------------------------------------------- main: signal task
\* The task spawned by main, which runs from the signal to its end without
\* an await: select! { sigterm.recv(), sigint.recv() }, then
\* shutdown_tx.send(()).ok() hands the message to every receiver that exists,
\* then the task ends and drops shutdown_tx, the only Sender.
SignalTask ==
    /\ pcRun # "returned"
    /\ pcSig = "select"
    /\ pcSig' = "done"
    /\ rxMain' = "msg"
    /\ rx' = [j \in JobIds |-> IF rx[j] = "empty" THEN "msg" ELSE rx[j]]
    /\ UNCHANGED <<pureVars, now, job, runVars, loopVars, execVars>>

\* ---------------------------------------------------------------- run
\* docker_client, selector parsing and discover: an Err or an empty Vec
\* returns before anything is spawned.
RunDiscover ==
    /\ pcRun = "discover"
    /\ \E ok \in BOOLEAN :
        /\ jobs' = IF ok THEN {j \in JobIds : job[j] # NoJob} ELSE {}
        /\ pcRun' = IF jobs' = {} THEN "returned" ELSE "spawn"
    /\ UNCHANGED <<pureVars, now, job, sigVars, handles, loopVars, execVars>>

\* one iteration of `for job in jobs`: resubscribe, then tokio::spawn
RunSpawn ==
    /\ pcRun = "spawn"
    /\ LET j == Min(jobs \ handles)
       IN  /\ rx' = [rx EXCEPT ![j] = "empty"]
           /\ pc' = [pc EXCEPT ![j] = "start"]
           /\ handles' = handles \cup {j}
           /\ pcRun' = IF handles' = jobs THEN "select" ELSE "spawn"
    /\ UNCHANGED <<pureVars, now, job, jobs, pcSig, rxMain, loopStart, deadline,
                   next, gate, fired, skipped, execVars>>

\* run returns Ok(()) and main returns it: the runtime is dropped, and every
\* task still alive is cancelled where it stands.
RunReturn ==
    /\ pcRun' = "returned"
    /\ pc' = [j \in JobIds |-> IF pc[j] \in LoopLive THEN "killed" ELSE pc[j]]
    /\ gate' = [j \in JobIds |-> 1]
    /\ aborted' = [j \in JobIds |-> aborted[j] + InFlight(execs[j])]
    /\ execs' = [j \in JobIds |-> <<>>]
    /\ attempt' = [j \in JobIds |-> NoAttempt]

\* select! first branch: every handle awaited in turn
RunJoinAll ==
    /\ pcRun = "select"
    /\ \A j \in handles : pc[j] \in LoopEnded
    /\ RunReturn
    /\ UNCHANGED <<pureVars, now, job, jobs, sigVars, handles, loopStart, deadline, next,
                   fired, skipped>>

\* select! second branch: shutdown.recv(), "graceful shutdown initiated"
RunShutdown ==
    /\ pcRun = "select"
    /\ RecvReady(rxMain)
    /\ RunReturn
    /\ UNCHANGED <<pureVars, now, job, jobs, sigVars, handles, loopStart, deadline, next,
                   fired, skipped>>

\* ----------------------------------------------------------- run_loop
\* with no execution task of j left, nothing is left of its attempt either
Forgotten(j, es) == IF es = <<>> THEN NoAttempt ELSE attempt[j]

\* variant of the cron branch that looks for the occurrence after the
\* instant it last slept until, not after the current time
AfterAttemptFromNext(j) ==
    IF job[j].schedule.kind = "Every"
    THEN /\ pc' = [pc EXCEPT ![j] = "wait"]
         /\ next' = next
    ELSE LET n == next_instant(job[j].schedule.times, next[j])
         IN  /\ pc' = [pc EXCEPT ![j] = IF n < 0 THEN "failed" ELSE "wait"]
             /\ next' = [next EXCEPT ![j] = IF n < 0 THEN next[j] ELSE n]

\* what the loop does once an execution attempt (or a skip) is behind it:
\* the interval branch loops back to tick(); the cron branch recomputes
\* `next` from the current time and returns the Err of next_instant.
AfterAttempt(j) ==
    IF job[j].schedule.kind = "Every"
    THEN /\ pc' = [pc EXCEPT ![j] = "wait"]
         /\ next' = next
    ELSE LET n == next_instant(job[j].schedule.times, now)
         IN  /\ pc' = [pc EXCEPT ![j] = IF n < 0 THEN "failed" ELSE "wait"]
             /\ next' = [next EXCEPT ![j] = IF n < 0 THEN next[j] ELSE n]

\* first poll of the loop task: run_loop up to its first await
LoopStart(j) ==
    /\ pc[j] = "start"
    /\ loopStart' = [loopStart EXCEPT ![j] = now]
    /\ IF job[j].schedule.kind = "Every"
       THEN \* the first tick of an interval completes immediately
            /\ pc' = [pc EXCEPT ![j] = "warmup"]
            /\ deadline' = [deadline EXCEPT ![j] = now]
            /\ next' = next
       ELSE LET n == next_instant(job[j].schedule.times, now)
            IN  /\ pc' = [pc EXCEPT ![j] = IF n < 0 THEN "failed" ELSE "wait"]
                /\ next' = [next EXCEPT ![j] = IF n < 0 THEN next[j] ELSE n]
                /\ deadline' = deadline
    /\ UNCHANGED <<pureVars, now, job, sigVars, runVars, gate, fired, skipped, execVars>>

\* variant without the warm-up tick: the loop's first tick() is the
\* interval's immediate one
LoopNoWarmup(j) ==
    /\ pc[j] = "warmup"
    /\ pc' = [pc EXCEPT ![j] = "wait"]
    /\ UNCHANGED <<pureVars, now, job, sigVars, runVars, loopStart, deadline, next, gate,
                   fired, skipped, execVars>>

\* "wait one tick before starting the first execution"
LoopWarmup(j) ==
    /\ pc[j] = "warmup"
    /\ now >= deadline[j]
    /\ deadline' = [deadline EXCEPT ![j] =
            BurstNextTimeout(deadline[j], now, job[j].schedule.d)]
    /\ pc' = [pc EXCEPT ![j] = "wait"]
    /\ UNCHANGED <<pureVars, now, job, sigVars, runVars, loopStart, next, gate, fired,
                   skipped, execVars>>

\* the wait completes (tick().await / sleep_until(next).await) and the
\* overlap policy is applied, up to the await inside run_once_async
LoopFire(j) ==
    /\ pc[j] = "wait"
    /\ now >= Due(j)
    /\ deadline' = [deadline EXCEPT ![j] =
            IF job[j].schedule.kind = "Every"
            THEN BurstNextTimeout(deadline[j], now, job[j].schedule.d)
            ELSE deadline[j]]
    /\ IF job[j].overlap = "Allow" \/ gate[j] > 0
       THEN \* (try_acquire succeeded and) the execution task is spawned
            /\ gate' = [gate EXCEPT ![j] =
                    IF job[j].overlap = "Skip" THEN gate[j] - 1 ELSE gate[j]]
            /\ execs' = [execs EXCEPT ![j] = Append(execs[j], "spawned")]
            /\ attempt' = [attempt EXCEPT ![j] = NoAttempt]
            /\ fired' = [fired EXCEPT ![j] = fired[j] + 1]
            /\ pc' = [pc EXCEPT ![j] = "join"]
            /\ UNCHANGED <<next, skipped>>
       ELSE \* "skipping tick"
            /\ skipped' = [skipped EXCEPT ![j] = skipped[j] + 1]
            /\ AfterAttempt(j)
            /\ UNCHANGED <<gate, execs, fired, attempt>>
    /\ UNCHANGED <<pureVars, now, job, sigVars, runVars, loopStart, aborted>>

\* variant in which a failed create_exec ends the loop
LoopJoinFatal(j) ==
    /\ pc[j] = "join"
    /\ ~JoinPending(execs[j])
    /\ execs' = [execs EXCEPT ![j] = Running(execs[j])]
    /\ attempt' = [attempt EXCEPT ![j] = Forgotten(j, Running(execs[j]))]
    /\ gate' = [gate EXCEPT ![j] = 1]
    /\ IF \E i \in DOMAIN execs[j] : execs[j][i] = "create_failed"
       THEN pc' = [pc EXCEPT ![j] = "failed"] /\ next' = next
       ELSE AfterAttempt(j)
    /\ UNCHANGED <<pureVars, now, job, sigVars, runVars, loopStart, deadline, fired,
                   skipped, aborted>>

\* variant in which the permit is forgotten instead of dropped
LoopJoinKeepPermit(j) ==
    /\ pc[j] = "join"
    /\ ~JoinPending(execs[j])
    /\ execs' = [execs EXCEPT ![j] = Running(execs[j])]
    /\ attempt' = [attempt EXCEPT ![j] = Forgotten(j, Running(execs[j]))]
    /\ gate' = gate
    /\ AfterAttempt(j)
    /\ UNCHANGED <<pureVars, now, job, sigVars, runVars, loopStart, deadline, fired,
                   skipped, aborted>>

\* run_once_async returns: drop(permit), back to the head of the loop
LoopJoin(j) ==
    /\ pc[j] = "join"
    /\ ~JoinPending(execs[j])
    /\ execs' = [execs EXCEPT ![j] = Running(execs[j])]
    /\ attempt' = [attempt EXCEPT ![j] = Forgotten(j, Running(execs[j]))]
    /\ gate' = [gate EXCEPT ![j] = 1]
    /\ AfterAttempt(j)
    /\ UNCHANGED <<pureVars, now, job, sigVars, runVars, loopStart, deadline, fired,
                   skipped, aborted>>

\* select! in the loop task: shutdown_rx.recv() completes and the run_loop
\* future is dropped where it stands, its permit with it
LoopCancel(j) ==
    /\ pc[j] \in LoopLive
    /\ RecvReady(rx[j])
    /\ pc' = [pc EXCEPT ![j] = "returned"]
    /\ gate' = [gate EXCEPT ![j] = 1]
    /\ execs' = [execs EXCEPT ![j] = Running(execs[j])]
    /\ attempt' = [attempt EXCEPT ![j] = Forgotten(j, Running(execs[j]))]
    /\ UNCHANGED <<pureVars, now, job, sigVars, runVars, loopStart, deadline, next, fired,
                   skipped, aborted>>

\* ----------------------------------------------------------- run_once
\* the answers of the container runtime, and of shlex::split, to one attempt
OnceInputs ==
    [inspect : {"running", "not_running", "failed"},
     split : {"argv", "empty"},
     create : {"ok", "failed"},
     start : {"attached", "detached", "failed"}]

\* variant that creates the exec session before looking at the container
run_once_create_first(in) ==
    IF in.create = "failed"
    THEN [calls |-> <<"create_exec">>, ret |-> "Err", result |-> "create_failed"]
    ELSE IF in.inspect # "running"
    THEN [calls |-> <<"create_exec", "inspect_container">>, ret |-> "Ok",
          result |-> IF in.inspect = "failed" THEN "inspect_failed" ELSE "not_running"]
    ELSE IF in.split = "empty"
    THEN [calls |-> <<"create_exec", "inspect_container">>, ret |-> "Ok",
          result |-> "empty_command"]
    ELSE IF in.start = "failed"
    THEN [calls |-> <<"create_exec", "inspect_container", "start_exec">>,
          ret |-> "Err", result |-> "start_failed"]
    ELSE [calls |-> <<"create_exec", "inspect_container", "start_exec">>,
          ret |-> IF in.start = "detached" THEN "Ok" ELSE "none",
          result |-> in.start]

\* run_once up to the output stream: the calls it makes, in order, what it
\* returns (none while it is still streaming) and where it stands
run_once(in) ==
    IF in.inspect = "failed"
    THEN [calls |-> <<"inspect_container">>, ret |-> "Ok", result |-> "inspect_failed"]
    ELSE IF in.inspect = "not_running"
    THEN [calls |-> <<"inspect_container">>, ret |-> "Ok", result |-> "not_running"]
    ELSE IF in.split = "empty"
    THEN [calls |-> <<"inspect_container">>, ret |-> "Ok", result |-> "empty_command"]
    ELSE IF in.create = "failed"
    THEN [calls |-> <<"inspect_container", "create_exec">>, ret |-> "Err",
          result |-> "create_failed"]
    ELSE IF in.start = "failed"
    THEN [calls |-> <<"inspect_container", "create_exec", "start_exec">>,
          ret |-> "Err", result |-> "start_failed"]
    ELSE [calls |-> <<"inspect_container", "create_exec", "start_exec">>,
          ret |-> IF in.start = "detached" THEN "Ok" ELSE "none",
          result |-> in.start]

\* the execution task ends with result r, which its JoinHandle keeps for
\* the loop awaiting it; with the loop gone the handle is gone too
ExecEnd(j, i, r) ==
    execs' = [execs EXCEPT ![j] =
                IF pc[j] = "join" THEN [execs[j] EXCEPT ![i] = r]
                ELSE RemoveAt(execs[j], i)]

ExecStep(j, i, stage) ==
    execs' = [execs EXCEPT ![j][i] = stage]

\* the execution task runs run_once up to its first long wait
ExecBegin(j, i) ==
    /\ i \in DOMAIN execs[j]
    /\ execs[j][i] = "spawned"
    /\ \E once \in {run_once(in) : in \in OnceInputs} :
          /\ IF once.result = "attached"
             THEN ExecStep(j, i, "output")
             ELSE ExecEnd(j, i, once.result)
          /\ attempt' = [attempt EXCEPT ![j] =
                IF execs'[j] = <<>> THEN NoAttempt
                ELSE [calls |-> once.calls, ret |-> once.ret]]
    /\ UNCHANGED <<pureVars, now, job, sigVars, runVars, loopVars, aborted>>

\* the output stream ends, "exec finished"; or a chunk of another kind than
\* stdout and stderr arrives and the task panics on unreachable!()
ExecOutputEnd(j, i) ==
    /\ i \in DOMAIN execs[j]
    /\ execs[j][i] = "output"
    /\ \E r \in {"finished", "panicked"} :
          /\ ExecEnd(j, i, r)
          /\ attempt' = [attempt EXCEPT ![j] =
                IF execs'[j] = <<>> THEN NoAttempt
                ELSE [attempt[j] EXCEPT !.ret = IF r = "finished" THEN "Ok" ELSE "Panic"]]
    /\ UNCHANGED <<pureVars, now, job, sigVars, runVars, loopVars, aborted>>

\* ---------------------------------------------------------------- time
\* The clock counts whole instants. A loop task that can run without waiting
\* does so before the clock moves (timers complete at their instant), while
\* an execution may last any number of instants; spawning the loop tasks
\* (no await in `for job in jobs`) takes no time.
\* a loop task that can run without waiting
Runnable(j) ==
    \/ pc[j] = "start"
    \/ pc[j] = "warmup" /\ now >= deadline[j]
    \/ pc[j] = "wait" /\ now >= Due(j)
    \/ pc[j] = "join" /\ ~JoinPending(execs[j])
    \/ pc[j] \in LoopLive /\ RecvReady(rx[j])

AdvanceTime ==
    /\ pcRun \in {"discover", "select"}
    /\ ~(pcRun = "select" /\ RecvReady(rxMain))
    /\ now < MaxTime
    /\ \A j \in JobIds : ~Runnable(j)
    /\ now' = now + 1
    /\ UNCHANGED <<pureVars, job, sigVars, runVars, loopVars, execVars>>

Next ==
    \/ SignalTask
    \/ RunDiscover
    \/ RunSpawn
    \/ RunJoinAll
    \/ RunShutdown
    \/ \E j \in JobIds : LoopStart(j)
    \/ \E j \in JobIds : LoopWarmup(j)
    \/ \E j \in JobIds : LoopFire(j)
    \/ \E j \in JobIds : LoopJoin(j)
    \/ \E j \in JobIds : LoopCancel(j)
    \/ \E j \in JobIds, i \in ExecIds : ExecBegin(j, i)
    \/ \E j \in JobIds, i \in ExecIds : ExecOutputEnd(j, i)
    \/ AdvanceTime

Spec == Init /\ [][Next]_vars

\* scheduling is fair to every task; the signal and the clock are not forced
FairSpec ==
    /\ Spec
    /\ WF_vars(RunDiscover) /\ WF_vars(RunSpawn)
    /\ WF_vars(RunJoinAll) /\ WF_vars(RunShutdown)
    /\ \A j \in JobIds :
          /\ WF_vars(LoopStart(j)) /\ WF_vars(LoopWarmup(j)) /\ WF_vars(LoopFire(j))
          /\ WF_vars(LoopJoin(j)) /\ WF_vars(LoopCancel(j))
          /\ \A i \in ExecIds : WF_vars(ExecBegin(j, i)) /\ WF_vars(ExecOutputEnd(j, i))

\* ------------------------------------------------- JobSchedule::from_str
\* one call of from_str, on any of the strings
ParseInit ==
    /\ Start
    /\ job = [j \in JobIds |-> NoJob]
    /\ text \in Texts
    /\ parsed = NotCalled
    /\ query = NoQuery
    /\ found = NotFound

FromStrCall ==
    /\ parsed = NotCalled
    /\ parsed' = from_str(text)
    /\ UNCHANGED <<text, query, found, machineVars>>

ParseNext == FromStrCall

ParseSpec == ParseInit /\ [][ParseNext]_vars

\* ---------------------------------------------------------------- discover
\* one call of discover, on any of the inventories
DiscoverInit ==
    /\ Start
    /\ job = [j \in JobIds |-> NoJob]
    /\ text = <<>>
    /\ parsed = NotCalled
    /\ query \in Queries
    /\ found = NotFound

DiscoverCall ==
    /\ found = NotFound
    /\ \E order \in Orders : found' = discover(query, order)
    /\ UNCHANGED <<text, parsed, query, machineVars>>

DiscoverNext == DiscoverCall

DiscoverSpec == DiscoverInit /\ [][DiscoverNext]_vars

\* ------------------------------------------------------------ properties
TypeOK ==
    /\ now \in 0..MaxTime
    /\ job \in Inventories
    /\ jobs \subseteq JobIds /\ handles \subseteq jobs
    /\ pcSig \in {"select", "done"}
    /\ rxMain \in {"empty", "msg"}
    /\ rx \in [JobIds -> {"unsub", "empty", "msg"}]
    /\ pcRun \in {"discover", "spawn", "select", "returned"}
    /\ pc \in [JobIds -> {"unspawned", "killed"} \cup LoopLive \cup LoopEnded]
    /\ gate \in [JobIds -> 0..1]
    /\ \A j \in JobIds :
          /\ \A i \in DOMAIN execs[j] : execs[j][i] \in Stages \cup Results
          /\ Len(execs[j]) <= 1
          /\ j \notin handles => pc[j] = "unspawned"
          /\ gate[j] = 0 => job[j].overlap = "Skip" /\ pc[j] = "join"
    /\ Len(text) <= MaxPieces /\ \A i \in DOMAIN text : text[i] \in Pieces
    /\ parsed.ok \in BOOLEAN
    /\ found.ok \in BOOLEAN
    /\ query.listed \in BOOLEAN

IsEvery(j) == job[j].schedule.kind = "Every"
IsCron(j) == job[j].schedule.kind = "Cron"
Results_(es) == {es[i] : i \in DOMAIN es}

\* the loop of j takes a tick in this step: it dispatches or logs a skip
TickTaken(j) ==
    pc[j] = "wait" /\ (fired'[j] # fired[j] \/ skipped'[j] # skipped[j])

\* C1: a SkipIfRunning Job never has more than one execution in flight.
C1_SkipAtMostOneInFlight ==
    \A j \in JobIds : job[j].overlap = "Skip" => InFlight(execs[j]) <= 1

\* a SkipIfRunning interval Job is executing while its next tick is already due
C1_Witness ==
    \E j \in JobIds :
        /\ job[j].overlap = "Skip" /\ IsEvery(j)
        /\ pc[j] = "join" /\ InFlight(execs[j]) = 1
        /\ now >= deadline[j]

\* C2: under Allow, a tick that comes due while the previous execution is
\* still running is taken then, alongside it: the live loop of an Allow Job
\* with an execution in flight and a tick due stands at its wait, not behind
\* the running execution.
C2_AllowDueTickFiresAlongside ==
    \A j \in JobIds :
        (/\ job[j].overlap = "Allow" /\ IsEvery(j)
         /\ pc[j] \in LoopLive
         /\ InFlight(execs[j]) > 0
         /\ now >= deadline[j])
        => pc[j] = "wait"

\* no Job, whatever its policy, ever has two executions in flight
NeverTwoInFlight == \A j \in JobIds : InFlight(execs[j]) <= 1

\* C3: under SkipIfRunning, a tick whose due instant passed while an
\* execution was in flight is taken as a logged skip and starts no execution.
C3_OverlappedTickIsSkipped ==
    [][\A j \in JobIds :
          (job[j].overlap = "Skip" /\ IsEvery(j) /\ TickTaken(j) /\ deadline[j] < now)
          => (skipped'[j] = skipped[j] + 1 /\ fired'[j] = fired[j])]_vars

\* no tick is ever logged as skipped
NeverSkips == \A j \in JobIds : skipped[j] = 0

\* C4: after the signal, run has returned only if every spawned loop task
\* has returned.
C4_RunReturnsAfterEveryLoop ==
    (pcSig = "done" /\ pcRun = "returned") => \A j \in handles : pc[j] \in LoopEnded

\* C5: no execution in flight at the cancellation is cut off before its
\* output ended.
C5_InFlightRunsToCompletion ==
    pcSig = "done" => \A j \in JobIds : aborted[j] = 0

\* C6: once the signal has been delivered, every spawned loop task
\* eventually returns.
C6_EveryLoopReturns ==
    \A j \in JobIds : (pcSig = "done" /\ pc[j] \in LoopLive) ~> (pc[j] \in LoopEnded)

\* after the signal every spawned loop task comes to an end, returned or cut
\* off by the process exiting
EveryLoopEnds ==
    \A j \in JobIds :
        (pcSig = "done" /\ pc[j] \in LoopLive) ~> (pc[j] \in LoopEnded \cup {"killed"})

\* C7: an Interval Job with duration d attempts nothing before one full
\* interval has passed since its loop started.
C7_FirstFireAfterFullInterval ==
    \A j \in JobIds :
        (IsEvery(j) /\ (fired[j] + skipped[j] > 0 \/ execs[j] # <<>>))
        => now >= loopStart[j] + job[j].schedule.d

\* a loop that started late has just fired its first tick, one interval of
\* MaxPeriod after its start
C7_Witness ==
    \E j \in JobIds :
        /\ IsEvery(j) /\ job[j].schedule.d = MaxPeriod
        /\ loopStart[j] > 0
        /\ fired[j] = 1 /\ pc[j] = "join"
        /\ now = loopStart[j] + job[j].schedule.d

\* C8 as stated: a tick taken after two or more boundaries have passed is
\* the only catch-up, the timer then waits for a boundary in the future.
C8_MissedTicksCoalesced ==
    [][\A j \in JobIds :
          (IsEvery(j) /\ TickTaken(j) /\ now >= deadline[j] + job[j].schedule.d)
          => deadline'[j] > now]_vars

\* C8 amended: no boundary is coalesced away: the k-th tick taken is the one
\* of boundary loopStart + k*d, so an overrun past several boundaries is
\* caught up by one tick for each of them.
C8_OneTickPerBoundary ==
    \A j \in JobIds :
        (IsEvery(j) /\ pc[j] \in {"wait", "join"})
        => deadline[j] = loopStart[j] + (fired[j] + skipped[j] + 1) * job[j].schedule.d

\* after an overrun a catch-up tick has been taken, its execution is over,
\* and yet another boundary of the backlog is already due
C8_Witness ==
    \E j \in JobIds :
        /\ IsEvery(j) /\ pc[j] = "wait"
        /\ fired[j] >= 2
        /\ deadline[j] < now

\* C9: when the cron engine has no future occurrence, at loop start or when
\* recomputing after an attempt, that loop ends with the error; an ended loop
\* stays ended and starts nothing; the step changes nothing of another Job.
C9_NoOccurrenceEndsOnlyThatLoop ==
    [][\A j \in JobIds :
          /\ (/\ IsCron(j)
              /\ {x \in job[j].schedule.times : x > now} = {}
              /\ \/ pc[j] = "start" /\ pc'[j] \notin {"start", "returned", "killed"}
                 \/ pc[j] = "join" /\ pc'[j] \notin {"join", "returned", "killed"})
             => /\ pc'[j] = "failed"
                /\ \A k \in JobIds \ {j} :
                      /\ pc'[k] = pc[k] /\ execs'[k] = execs[k]
                      /\ deadline'[k] = deadline[k] /\ next'[k] = next[k]
                      /\ gate'[k] = gate[k] /\ rx'[k] = rx[k]
          /\ pc[j] = "failed"
             => pc'[j] = "failed" /\ fired'[j] = fired[j] /\ execs'[j] = execs[j]]_vars

\* a cron loop has ended on the error, after an execution, and the loop of
\* another Job has fired since
C9_Witness ==
    \E j \in JobIds, k \in JobIds :
        /\ j # k
        /\ pc[j] = "failed" /\ fired[j] = 1
        /\ pc[k] \in LoopLive /\ fired[k] > 0 /\ loopStart[k] + 1 < now

\* C10 as stated: a failed create_exec ends the Job's loop, which never waits
\* for a tick again.
C10_CreateFailureEndsLoop ==
    [][\A j \in JobIds :
          (pc[j] = "join" /\ "create_failed" \in Results_(execs[j]))
          => pc'[j] # "wait"]_vars

\* C10 amended: a failed create_exec ends only that attempt: the loop that
\* joins it goes on as after any attempt, to its next wait (or, for a cron Job
\* with no further occurrence, to the cron error), and nothing of another
\* Job changes.
C10_CreateFailureEndsAttemptOnly ==
    [][\A j \in JobIds :
          (/\ pc[j] = "join" /\ "create_failed" \in Results_(execs[j])
           /\ pc'[j] \notin {"join", "returned", "killed"})
          => /\ pc'[j] = IF IsEvery(j) \/ {x \in job[j].schedule.times : x > now} # {}
                         THEN "wait" ELSE "failed"
             /\ gate'[j] = 1
             /\ \A k \in JobIds \ {j} :
                   /\ pc'[k] = pc[k] /\ execs'[k] = execs[k]
                   /\ deadline'[k] = deadline[k] /\ next'[k] = next[k]]_vars

\* the loop of a Job is about to join an execution whose create_exec failed
C10_Witness ==
    \E j \in JobIds :
        /\ pc[j] = "join"
        /\ execs[j] = <<"create_failed">>
        /\ fired[j] = 1

\* results of an attempt that found nothing to execute
SkippedResults == {"inspect_failed", "not_running", "empty_command"}
Calls_(j) == {attempt[j].calls[i] : i \in DOMAIN attempt[j].calls}

\* C11: an attempt that ends on a failed inspect, a container not running or
\* an empty or unsplittable command has made no create_exec and no start_exec
\* call and returned Ok, and the loop that joins it goes on to its next wait.
C11_NothingToExecuteIsSkipped ==
    [][\A j \in JobIds :
          (pc[j] = "join" /\ Results_(execs[j]) \cap SkippedResults # {})
          => /\ attempt[j].ret = "Ok"
             /\ Calls_(j) \cap {"create_exec", "start_exec"} = {}
             /\ pc'[j] \notin {"join", "returned", "killed"}
                => pc'[j] = IF IsEvery(j) \/ {x \in job[j].schedule.times : x > now} # {}
                            THEN "wait" ELSE "failed"]_vars

\* the loop of a Job is about to join an attempt that inspected the
\* container and stopped at the command
C11_Witness ==
    \E j \in JobIds :
        /\ pc[j] = "join"
        /\ execs[j] = <<"empty_command">>
        /\ attempt[j] = [calls |-> <<"inspect_container">>, ret |-> "Ok"]

HasPrefix(s, prefix) == strip_prefix(s, prefix) # <<>>

\* the four literal shorthands and their periods in seconds
LiteralSecs(s) ==
    IF s = <<"@hourly">> THEN 3600
    ELSE IF s = <<"@daily">> THEN 24 * 3600
    ELSE IF s = <<"@weekly">> THEN 168 * 3600
    ELSE IF s = <<"@monthly">> THEN 720 * 3600
    ELSE -1

\* C16 as stated: whatever the string, '@every ' in front gives an Interval,
\* '@cron ' in front gives a CronExpression, the four literals give their
\* Intervals, any other valid raw cron expression gives a CronExpression and
\* every other string fails with "unsupported schedule".
C16_ParseTotalInDocumentedOrder ==
    parsed # NotCalled =>
        IF HasPrefix(text, JOB_SCHEDULE_EVERY_DEFINITION_PREFIX)
        THEN parsed.ok /\ parsed.kind = "Every"
        ELSE IF HasPrefix(text, JOB_SCHEDULE_CRON_DEFINITION_PREFIX)
        THEN parsed.ok /\ parsed.kind = "Cron"
        ELSE IF LiteralSecs(text) >= 0 THEN parsed = Every(LiteralSecs(text))
        ELSE IF Schedule_from_str(text) THEN parsed = Cron(text)
        ELSE parsed = Err("unsupported schedule")

\* C16, amended: the string is parsed without its surrounding blanks; with
\* '@every ' in front it gives the Interval of the duration that follows, or
\* the duration parser's error when that is no duration; with '@cron ' in
\* front it gives the CronExpression that follows, or "could not parse cron
\* schedule"; the four literals give their Intervals; any other valid raw
\* cron expression gives a CronExpression; every other string fails with
\* "unsupported schedule".
C16_ParseOfTrimmedString ==
    parsed # NotCalled =>
        LET s == trim(text)
            rest == SubSeq(s, 3, Len(s))
        IN  IF HasPrefix(s, JOB_SCHEDULE_EVERY_DEFINITION_PREFIX)
            THEN IF parse_duration(rest) >= 0
                 THEN parsed = Every(parse_duration(rest))
                 ELSE ~parsed.ok /\ parsed.err = "invalid duration"
            ELSE IF HasPrefix(s, JOB_SCHEDULE_CRON_DEFINITION_PREFIX)
            THEN IF Schedule_from_str(rest)
                 THEN parsed = Cron(rest)
                 ELSE ~parsed.ok /\ parsed.err = "could not parse cron schedule"
            ELSE IF LiteralSecs(s) >= 0 THEN parsed = Every(LiteralSecs(s))
            ELSE IF Schedule_from_str(s) THEN parsed = Cron(s)
            ELSE ~parsed.ok /\ parsed.err = "unsupported schedule"

\* '@every ' followed by something that is no duration has been parsed
C16_Witness ==
    /\ HasPrefix(text, JOB_SCHEDULE_EVERY_DEFINITION_PREFIX)
    /\ parsed = Err("invalid duration")

\* ---- discover
Listed == {query.containers[i] : i \in DOMAIN query.containers}
FoundJobs == {found.jobs[n] : n \in DOMAIN found.jobs}
JobNames == {"a", "b"}
Prefixes == {query.prefixes[i] : i \in DOMAIN query.prefixes}
Key(p, name, kind) == <<p, "job-exec", name, kind>>

\* the container carries the selector's label, when a selector is given
Eligible(c) ==
    \/ query.container_filter_label = <<>>
    \/ /\ query.container_filter_label[1].key \in DOMAIN c.labels
       /\ c.labels[query.container_filter_label[1].key] = query.container_filter_label[1].value

EnabledExactly(c, p) ==
    <<p, "enabled">> \in DOMAIN c.labels /\ c.labels[<<p, "enabled">>] = <<"true">>

\* p is the first prefix of the configured list that c enables
FirstEnabled(c, p) ==
    \E i \in DOMAIN query.prefixes :
        /\ query.prefixes[i] = p
        /\ EnabledExactly(c, p)
        /\ \A k \in 1..(i - 1) : ~EnabledExactly(c, query.prefixes[k])

\* the group of job `name` under p has a schedule and a command label
Complete(c, p, name) ==
    Key(p, name, "schedule") \in DOMAIN c.labels /\ Key(p, name, "command") \in DOMAIN c.labels

WellFormed(c, p, name) ==
    Complete(c, p, name) /\ from_str(c.labels[Key(p, name, "schedule")]).ok

Returned(c, name) ==
    \E J \in FoundJobs : J.container_id = c.id[1] /\ J.name = name

\* C12: every returned Job belongs to a listed container and is made of the
\* schedule and command labels that container carries under the first
\* configured prefix whose enabled label is exactly "true"; labels under
\* another prefix make no Job, and a container enabling no prefix has none.
C12_JobsComeFromFirstEnabledPrefix ==
    found.ok =>
        \A J \in FoundJobs :
            \E c \in Listed, p \in Prefixes :
                /\ J.container_id = c.id[1]
                /\ FirstEnabled(c, p)
                /\ Complete(c, p, J.name)
                /\ J.schedule = from_str(c.labels[Key(p, J.name, "schedule")])
                /\ J.command = c.labels[Key(p, J.name, "command")]

\* a container that enables both prefixes and has a complete group under
\* each has had its Jobs returned
C12_Witness ==
    /\ found.ok
    /\ \E c \in Listed :
          /\ \A p \in Prefixes : EnabledExactly(c, p)
          /\ \A p \in Prefixes : \E name \in JobNames : WellFormed(c, p, name)
          /\ \E name \in JobNames : Returned(c, name)

\* C13: a group under a container's effective prefix that lacks its schedule
\* or its command label is not returned; discover fails only when the
\* listing fails or some complete group of an eligible container has a
\* schedule that does not parse; and when it succeeds, every complete
\* well-formed group of every eligible container is returned.
C13_IncompleteGroupIsDroppedOnly ==
    found # NotFound =>
        /\ \A c \in Listed, p \in Prefixes, name \in JobNames :
              FirstEnabled(c, p) /\ ~Complete(c, p, name) => ~Returned(c, name)
        /\ ~found.ok =>
              \/ ~query.listed
              \/ \E c \in Listed, p \in Prefixes, name \in JobNames :
                    /\ Eligible(c) /\ FirstEnabled(c, p)
                    /\ Complete(c, p, name) /\ ~WellFormed(c, p, name)
        /\ found.ok =>
              \A c \in Listed, p \in Prefixes, name \in JobNames :
                  Eligible(c) /\ FirstEnabled(c, p) /\ WellFormed(c, p, name)
                      => Returned(c, name)

\* a group with an unparsable schedule and no command sits next to a complete
\* group, which has been returned
C13_Witness ==
    /\ found.ok
    /\ \E c \in Listed, p \in Prefixes :
          /\ Eligible(c) /\ FirstEnabled(c, p)
          /\ Key(p, "a", "schedule") \in DOMAIN c.labels
          /\ ~from_str(c.labels[Key(p, "a", "schedule")]).ok
          /\ ~Complete(c, p, "a")
          /\ WellFormed(c, p, "b") /\ Returned(c, "b")

\* C14: when a complete group under the effective prefix of an eligible
\* container has a schedule that does not parse, discover returns an error
\* and no Job.
C14_BadScheduleFailsDiscovery ==
    found # NotFound =>
        ((\E c \in Listed, p \in Prefixes, name \in JobNames :
              /\ Eligible(c) /\ FirstEnabled(c, p)
              /\ Complete(c, p, name) /\ ~WellFormed(c, p, name))
            => ~found.ok /\ found.jobs = <<>>)

\* discover has failed on the second container although the first one,
\* processed before it, has a well-formed group
C14_Witness ==
    /\ found = Failed("parse schedule")
    /\ Len(query.containers) = 2
    /\ LET c1 == query.containers[1]
           c2 == query.containers[2]
       IN  /\ \E p \in Prefixes, name \in JobNames :
                 Eligible(c1) /\ FirstEnabled(c1, p) /\ WellFormed(c1, p, name)
           /\ \A p \in Prefixes, name \in JobNames :
                 FirstEnabled(c1, p) /\ Complete(c1, p, name) => WellFormed(c1, p, name)
           /\ \E p \in Prefixes, name \in JobNames :
                 /\ Eligible(c2) /\ FirstEnabled(c2, p)
                 /\ Complete(c2, p, name) /\ ~WellFormed(c2, p, name)

\* C15: no two Jobs of one result have the same container id and name.
C15_ContainerIdAndNameUnique ==
    found.ok =>
        \A m, n \in DOMAIN found.jobs :
            m # n => <<found.jobs[m].container_id, found.jobs[m].name>>
                         # <<found.jobs[n].container_id, found.jobs[n].name>>

\* two containers have returned a Job of the same name, and one of them a
\* second Job
C15_Witness ==
    /\ found.ok
    /\ Len(found.jobs) >= 3
    /\ \E m, n \in DOMAIN found.jobs :
          /\ found.jobs[m].name = found.jobs[n].name
          /\ found.jobs[m].container_id # found.jobs[n].container_id

\* ---- the loops, continued
\* C17: while an execution of a Job is in flight, the Job's loop is back at
\* its wait.
C17_LoopBackAtWaitWhileInFlight ==
    \A j \in JobIds :
        pc[j] \in LoopLive /\ InFlight(execs[j]) > 0 => pc[j] = "wait"

\* C18: a loop whose receiver holds the cancellation, or finds the channel
\* closed, starts no execution.
C18_NoFireOnceCancelled ==
    [][\A j \in JobIds : RecvReady(rx[j]) => fired'[j] = fired[j]]_vars

\* C19: for a Skip Job the permit is held during an attempt and is back in
\* the gate when the attempt is over, whatever it returned, so the gate has
\* its permit whenever the loop is at its wait, and no tick is ever skipped.
C19_PermitBackAfterEveryAttempt ==
    [][\A j \in JobIds :
          job[j].overlap = "Skip" =>
              /\ pc[j] = "join" /\ pc'[j] # "join" => gate[j] = 0 /\ gate'[j] = 1
              /\ pc'[j] = "wait" => gate'[j] = 1 /\ skipped'[j] = 0]_vars

\* a Skip Job is back at its wait with the permit, two attempts behind it
C19_Witness ==
    \E j \in JobIds :
        /\ job[j].overlap = "Skip"
        /\ pc[j] = "wait"
        /\ fired[j] >= 2
        /\ gate[j] = 1

\* C20: a Cron loop takes a tick at the instant `next` it computed; when an
\* attempt is over, `next` is the first occurrence after the current time,
\* later than the instant just fired: no timestamp is fired twice and the
\* occurrences that elapsed during the attempt are never fired.
C20_CronNextFromNowAfterAttempt ==
    [][\A j \in JobIds :
          IsCron(j) =>
              /\ TickTaken(j) => now = next[j]
              /\ pc[j] = "join" /\ pc'[j] = "wait" =>
                    /\ next'[j] \in job[j].schedule.times
                    /\ next'[j] > now /\ next'[j] > next[j]
                    /\ \A x \in job[j].schedule.times : ~(now < x /\ x < next'[j])]_vars

\* a Cron loop started at 0 is back at its wait and fewer ticks were taken
\* than occurrences lie before `next`: some elapsed during an attempt
C20_Witness ==
    \E j \in JobIds :
        /\ IsCron(j)
        /\ pc[j] = "wait"
        /\ loopStart[j] = 0
        /\ fired[j] >= 1
        /\ Cardinality({x \in job[j].schedule.times : x < next[j]}) > fired[j] + skipped[j]

====
